---- MODULE Spec2Model ----
(***************************************************************************)
(* The a11y-input custom element (src/src/a11y-input.js, and its earlier   *)
(* update-hook revision src/unnamed/part_002) as a state machine.          *)
(*                                                                         *)
(* One element instance is modelled.  Its reactive properties `label` and  *)
(* `value` are written through the accessors that LitElement generates     *)
(* from `static get properties()`; every write calls _requestUpdate, which *)
(* records the property in the changed set and enqueues one asynchronous   *)
(* update pass (a microtask that additionally waits for the first          *)
(* connectedCallback).  The pass runs update() (render) and then           *)
(* updated().  Light-DOM nodes are created by connectedCallback.           *)
(*                                                                         *)
(* The todo-item (src/src/todo-item.js) and the todo-list                  *)
(* (src/unnamed/part_000) are modelled next to it, each under its own      *)
(* specification (ItemSpec, ListSpec) in which the other elements stay as  *)
(* constructed.  The filter app my-app (src/unnamed/part_000) is modelled   *)
(* under AppSpec; the a11y-input of its template is the modelled           *)
(* a11y-input instance.                                                    *)
(***************************************************************************)
EXTENDS Integers, Sequences, FiniteSets, TLC

\* ----------------------------------------------------------------- bounds
\* Number of operations the embedding page performs on the element
\* (property writes, attach, detach).  Update passes are not counted: each
\* one consumes a pending request.
MaxOps == 5

\* Strings the page assigns to `value` and to `label`.
Values == {"", "cat", "foo", "bar"}
Labels == {"", "foo"}

\* JavaScript's undefined, the old value of a property on its first write.
Undefined == "undefined"

\* The message passed to log() / console.log.
CatMessage == "We like cats too :)"

\* The two revisions of the component.
Variants == {"final", "updateHook"}

VARIABLES
  variant,            \* which revision of a11y-input this instance is
  label,              \* this.label
  value,              \* this.value
  labelEl,            \* this.labelEl: node id, 0 = null
  inputEl,            \* this.inputEl: node id, 0 = null
  nodes,              \* every node created so far; a node's id is its index
  children,           \* light-DOM children of the element, in document order
  shadow,             \* slots rendered into the shadow root
  changedProperties,  \* this._changedProperties: name -> old value
  hasRequestedUpdate, \* an update pass is enqueued
  hasConnected,       \* connectedCallback has run at least once
  isConnected,        \* the element is currently in the document
  logged,             \* the messages log() was called with, in order
  threw,              \* a TypeError was raised by a write through a null node
  passEvents,         \* what the most recent update pass did, in order
  batch,              \* bookkeeping of the current batch of value writes
  hist,               \* history of the value writes since construction
  firstEls,           \* the nodes created by the first connectedCallback
  lastOp,             \* the operation that produced this state
  ops,                \* number of page operations so far
  todoItem,           \* a todo-item element standing on its own
  itemHist,           \* history of the operations on that todo-item
  todoList,           \* a todo-list element
  listHist,           \* history of the operations on that todo-list
  myApp               \* a my-app element

vars == << variant, label, value, labelEl, inputEl, nodes, children, shadow,
           changedProperties, hasRequestedUpdate, hasConnected, isConnected,
           logged, threw, passEvents, batch, hist, firstEls, lastOp, ops,
           todoItem, itemHist, todoList, listHist, myApp >>

\* The variables of the a11y-input element and of the app that may host it,
\* and those of the to-do elements.
inputVars == << variant, label, value, labelEl, inputEl, nodes, children,
                shadow, changedProperties, hasRequestedUpdate, hasConnected,
                isConnected, logged, threw, passEvents, batch, hist, firstEls,
                lastOp, ops, myApp >>
todoVars == << todoItem, itemHist, todoList, listHist >>

\* ------------------------------------------------------------ DOM helpers
NewLabel(text) == [tag |-> "label", slot |-> "label", text |-> text, value |-> ""]
\* A slip in connectedCallback: the second node is created with the wrong tag.
NewInputWrongTag == [tag |-> "label", slot |-> "input", text |-> "", value |-> ""]
NewInput == [tag |-> "input", slot |-> "input", text |-> "", value |-> ""]

ChildrenWithTag(t) == { i \in 1..Len(children) : nodes[children[i]].tag = t }

\* The empty changed-properties map.
NoChanges == [n \in {} |-> Undefined]

\* ------------------------------------------ to-do elements as constructed
\* A slip in the ToDoItem constructor: priority starts at 0.
NewToDoItemNoPriority ==
  [label |-> "", priority |-> 0, done |-> FALSE,
   connected |-> FALSE, dirty |-> TRUE, shadow |-> << >>]

\* ToDoItem constructor: label = '', priority = 1, done = false.  The base
\* class requests the first update; nothing is rendered yet.
NewToDoItem ==
  [label |-> "", priority |-> 1, done |-> FALSE,
   connected |-> FALSE, dirty |-> TRUE, shadow |-> << >>]

\* `assigned` maps each property the page has written to the value of its
\* latest write.
NoItemHistory ==
  [ops |-> 0, writes |-> 0, clicks |-> 0, renders |-> 0, last |-> "constructor",
   assigned |-> [f \in {} |-> ""]]

\* ToDoList constructor: the three records of dataItems.  The shadow root
\* exists and holds no todo-item before the first render.
ConstructorDataItems ==
  << [label |-> "Item 1", priority |-> 5, done |-> FALSE],
     [label |-> "Item 2", priority |-> 2, done |-> TRUE],
     [label |-> "Item 3", priority |-> 7, done |-> FALSE] >>

\* A constructor that already stamps the todo-items into the shadow root.
NewToDoListPrerendered ==
  [dataItems |-> ConstructorDataItems,
   views |-> ConstructorDataItems, parts |-> ConstructorDataItems,
   connected |-> FALSE, dirty |-> TRUE,
   console |-> << >>, returned |-> "not called"]

NewToDoList ==
  [dataItems |-> ConstructorDataItems,
   views |-> << >>, parts |-> << >>,
   connected |-> FALSE, dirty |-> TRUE,
   console |-> << >>, returned |-> "not called"]

NoListHistory ==
  [ops |-> 0, renders |-> 0, touched |-> {}, stale |-> FALSE,
   last |-> "constructor"]

\* MyApp has no constructor and declares no properties.  `fields` holds what
\* the page has assigned to the element object, by name.
NewMyApp ==
  [fields |-> [n \in {} |-> ""],
   connected |-> FALSE, hasConnected |-> FALSE, dirty |-> TRUE,
   shadow |-> << >>]

\* ------------------------------------------------- property write plumbing
\* UpdatingElement's notEqual: has the property's value changed?
HasChanged(new, old) == new # old

\* super._requestUpdate(name, oldValue): remember the first old value of a
\* property that changed in this batch.
RecordChange(cp, name, old, new) ==
  IF HasChanged(new, old) /\ name \notin DOMAIN cp
    THEN cp @@ (name :> old)
    ELSE cp

\* Variants of the override's test that a slip in _requestUpdate would give.
\* Testing only the property name:
RequestUpdateLogsAnyValue(name, old, current) == name = "value"
\* Testing only the current value:
RequestUpdateLogsAnyName(name, old, current) == current = "cat"
\* Testing additionally that the write changed the value:
RequestUpdateLogsIfChanged(name, old, current) ==
  name = "value" /\ current = "cat" /\ HasChanged(current, old)

\* Testing for every value but the sentinel:
RequestUpdateLogsNotCat(name, old, current) ==
  name = "value" /\ current # "cat"

\* The override's own test, made after super._requestUpdate(name, oldValue)
\* returned: on the property name and the value the element now holds.  The
\* old value and the outcome of the change test play no part in it.
RequestUpdateLogs(name, old, current) == name = "value" /\ current = "cat"

\* An override that leaves the notification to the update pass.
LoggedAfterRequestDeferred(v, lg, name, old, current) == lg

\* Messages after _requestUpdate(name, old) ran on an element whose `value`
\* is now `current`.  Only the final revision overrides _requestUpdate.
LoggedAfterRequest(v, lg, name, old, current) ==
  IF v = "final" /\ RequestUpdateLogs(name, old, current)
    THEN Append(lg, CatMessage)
    ELSE lg

\* ------------------------------------------------------------ constructor
\* this.label = ''; this.value = ''; this.labelEl = null; this.inputEl = null
\* Both writes change the property from undefined, so both are in the changed
\* set and the first update pass is pending.
ConstructorLogged(v) ==
  LoggedAfterRequest(v,
     LoggedAfterRequest(v, << >>, "label", Undefined, Undefined),
     "value", Undefined, "")

Init ==
  /\ variant \in Variants
  /\ label = ""
  /\ value = ""
  /\ labelEl = 0
  /\ inputEl = 0
  /\ nodes = << >>
  /\ children = << >>
  /\ shadow = << >>
  /\ changedProperties =
       RecordChange(RecordChange(NoChanges, "label", Undefined, ""),
                    "value", Undefined, "")
  /\ hasRequestedUpdate = TRUE
  /\ hasConnected = FALSE
  /\ isConnected = FALSE
  /\ logged = ConstructorLogged(variant)
  /\ threw = FALSE
  /\ passEvents = << >>
  /\ batch = [writes |-> 1, cats |-> 0,
              logs |-> Len(ConstructorLogged(variant)), closed |-> FALSE]
  /\ hist = [cats |-> 0, entries |-> 0, repeated |-> FALSE, early |-> 0]
  /\ firstEls = [label |-> 0, input |-> 0]
  /\ lastOp = [op |-> "constructor", arg |-> "", old |-> Undefined]
  /\ ops = 0
  /\ todoItem = NewToDoItem
  /\ itemHist = NoItemHistory
  /\ todoList = NewToDoList
  /\ listHist = NoListHistory
  /\ myApp = NewMyApp

\* ---------------------------------------------------------------- setters
\* el.value = v: the generated accessor stores v and calls
\* this._requestUpdate('value', oldValue).
SetValue(v) ==
  LET lg == LoggedAfterRequest(variant, logged, "value", value, v)
      b0 == IF batch.closed
              THEN [writes |-> 0, cats |-> 0, logs |-> 0, closed |-> FALSE]
              ELSE batch
  IN
  /\ ops < MaxOps
  /\ value' = v
  /\ changedProperties' = RecordChange(changedProperties, "value", value, v)
  /\ hasRequestedUpdate' = (hasRequestedUpdate \/ HasChanged(v, value))
  /\ logged' = lg
  /\ batch' = [writes |-> b0.writes + 1,
               cats   |-> b0.cats + (IF v = "cat" THEN 1 ELSE 0),
               logs   |-> b0.logs + (Len(lg) - Len(logged)),
               closed |-> FALSE]
  /\ hist' = [cats     |-> hist.cats + (IF v = "cat" THEN 1 ELSE 0),
              entries  |-> hist.entries
                             + (IF v = "cat" /\ value # "cat" THEN 1 ELSE 0),
              repeated |-> (hist.repeated \/ v = value),
              early    |-> hist.early + (IF hasConnected THEN 0 ELSE 1)]
  /\ lastOp' = [op |-> "setValue", arg |-> v, old |-> value]
  /\ ops' = ops + 1
  /\ UNCHANGED << variant, label, labelEl, inputEl, nodes, children, shadow,
                  hasConnected, isConnected, threw, passEvents, firstEls >>
  /\ UNCHANGED todoVars

\* el.label = l: the generated accessor stores l and calls
\* this._requestUpdate('label', oldValue).
SetLabel(l) ==
  /\ ops < MaxOps
  /\ label' = l
  /\ changedProperties' = RecordChange(changedProperties, "label", label, l)
  /\ hasRequestedUpdate' = (hasRequestedUpdate \/ HasChanged(l, label))
  /\ logged' = LoggedAfterRequest(variant, logged, "label", label, value)
  /\ hist' = [hist EXCEPT !.early = @ + (IF hasConnected THEN 0 ELSE 1)]
  /\ lastOp' = [op |-> "setLabel", arg |-> l, old |-> label]
  /\ ops' = ops + 1
  /\ UNCHANGED << variant, value, labelEl, inputEl, nodes, children, shadow,
                  hasConnected, isConnected, threw, passEvents, batch,
                  firstEls >>
  /\ UNCHANGED todoVars

\* ------------------------------------------------------ attach and detach
\* The body of connectedCallback, given the text put into the label node and
\* whether the created input node is stored in this.inputEl.
Connect(text, storeInput) ==
  LET labelId == Len(nodes) + 1
      inputId == Len(nodes) + 2
  IN
  /\ ops < MaxOps
  /\ ~isConnected
  /\ isConnected' = TRUE
  /\ hasConnected' = TRUE
  /\ nodes' = nodes \o << NewLabel(text), NewInput >>
  /\ labelEl' = labelId
  /\ inputEl' = IF storeInput THEN inputId ELSE inputEl
  /\ children' = children \o << labelId, inputId >>
  /\ firstEls' = IF hasConnected THEN firstEls
                 ELSE [label |-> labelId, input |-> inputId]
  /\ lastOp' = [op |-> "connected", arg |-> "", old |-> ""]
  /\ ops' = ops + 1
  /\ UNCHANGED << variant, label, value, shadow, changedProperties,
                  hasRequestedUpdate, logged, threw, passEvents, batch, hist >>
  /\ UNCHANGED todoVars

\* Slips in connectedCallback: the label text is never assigned; the input
\* node is appended but not kept in this.inputEl.
connectedCallbackNoText == Connect("", TRUE)
connectedCallbackLostInput == Connect(label, FALSE)

\* connectedCallback(): super.connectedCallback() marks the element connected
\* (releasing a waiting update pass); then a label node carrying the current
\* label and an input node are created, stored and appended.  The callback
\* has no guard: it does this on every insertion into a document.
connectedCallback == Connect(label, TRUE)

\* A disconnectedCallback that drops the references to the created nodes.
disconnectedCallbackClearing ==
  /\ ops < MaxOps
  /\ isConnected
  /\ isConnected' = FALSE
  /\ labelEl' = 0
  /\ inputEl' = 0
  /\ lastOp' = [op |-> "disconnected", arg |-> "", old |-> ""]
  /\ ops' = ops + 1
  /\ UNCHANGED << variant, label, value, nodes, children,
                  shadow, changedProperties, hasRequestedUpdate, hasConnected,
                  logged, threw, passEvents, batch, hist, firstEls >>
  /\ UNCHANGED todoVars

\* disconnectedCallback(): inherited, nothing of the element is reset; the
\* appended nodes stay children of the element.
disconnectedCallback ==
  /\ ops < MaxOps
  /\ isConnected
  /\ isConnected' = FALSE
  /\ lastOp' = [op |-> "disconnected", arg |-> "", old |-> ""]
  /\ ops' = ops + 1
  /\ UNCHANGED << variant, label, value, labelEl, inputEl, nodes, children,
                  shadow, changedProperties, hasRequestedUpdate, hasConnected,
                  logged, threw, passEvents, batch, hist, firstEls >>
  /\ UNCHANGED todoVars

\* ------------------------------------------------------------- update pass
\* The part of the state an update pass works on, and the record of what the
\* pass did.
PassStart ==
  [nodes |-> nodes, logged |-> logged, shadow |-> shadow,
   events |-> << >>, threw |-> FALSE]

\* render(), committed by LitElement.update: the two named slots.
render(s) ==
  [s EXCEPT !.shadow = << "label", "input" >>,
            !.events = Append(@, "render")]

\* this.inputEl.value = this.value; a TypeError when inputEl is null.
WriteInput(s) ==
  IF inputEl = 0
    THEN [s EXCEPT !.threw = TRUE]
    ELSE [s EXCEPT !.nodes[inputEl].value = value,
                   !.events = Append(@, "write")]

\* console.log('We like cats too :)') inside the update hook.
LogCat(s) ==
  [s EXCEPT !.logged = Append(@, CatMessage), !.events = Append(@, "log")]

\* A slip in updated(): the test names the wrong property.
updatedOnLabel(s, changed) ==
  IF "label" \in DOMAIN changed THEN WriteInput(s) ELSE s

\* updated() without its test: the input node is written on every pass.
updatedAlways(s, changed) == WriteInput(s)

\* updated(changedProperties) of the final revision.
updated(s, changed) ==
  IF "value" \in DOMAIN changed THEN WriteInput(s) ELSE s

\* update(changedProperties) of the final revision: inherited, it renders.
update(s, changed) == render(s)

\* The update hook with the sentinel test outside the changed-set test.
updateHookLogsOnEveryPass(s, changed) ==
  LET s1 == render(s)
      s2 == IF value = "cat" THEN LogCat(s1) ELSE s1
  IN IF "value" \in DOMAIN changed THEN WriteInput(s2) ELSE s2

\* update(changedProperties) of the update-hook revision: super.update()
\* renders, then the sentinel test and the write into the input node.
updateHook(s, changed) ==
  LET s1 == render(s) IN
  IF "value" \in DOMAIN changed
    THEN WriteInput(IF value = "cat" THEN LogCat(s1) ELSE s1)
    ELSE s1

\* A slip in the hooks: the write into the input node placed ahead of the
\* render step of the pass.
PassResultWriteFirst(changed) ==
  IF "value" \in DOMAIN changed
    THEN render(WriteInput(PassStart))
    ELSE render(PassStart)

\* performUpdate(): update(changed), then the changed set and the request
\* flag are cleared, then updated(changed).
PassResult(changed) ==
  IF variant = "final"
    THEN updated(update(PassStart, changed), changed)
    ELSE updateHook(PassStart, changed)

\* The enqueued pass runs as a microtask once the element has connected.
performUpdate ==
  LET r == PassResult(changedProperties) IN
  /\ hasRequestedUpdate
  /\ hasConnected
  /\ nodes' = r.nodes
  /\ logged' = r.logged
  /\ shadow' = r.shadow
  /\ passEvents' = r.events
  /\ threw' = (threw \/ r.threw)
  /\ changedProperties' = NoChanges
  /\ hasRequestedUpdate' = FALSE
  /\ batch' = [batch EXCEPT !.logs = @ + (Len(r.logged) - Len(logged)),
                            !.closed = TRUE]
  /\ lastOp' = [op |-> "update",
                arg |-> IF "value" \in DOMAIN changedProperties
                          THEN "value" ELSE "",
                old |-> ""]
  /\ UNCHANGED << variant, label, value, labelEl, inputEl, children,
                  hasConnected, isConnected, hist, firstEls, ops >>
  /\ UNCHANGED todoVars

\* ------------------------------------------------------------- the system
Next ==
  \/ \E v \in Values : SetValue(v) /\ UNCHANGED myApp
  \/ \E l \in Labels : SetLabel(l) /\ UNCHANGED myApp
  \/ connectedCallback /\ UNCHANGED myApp
  \/ disconnectedCallback /\ UNCHANGED myApp
  \/ performUpdate /\ UNCHANGED myApp

Spec == Init /\ [][Next]_vars

\* The update microtask is run by the event loop whenever it is enqueued and
\* the element has connected.
FairSpec == Spec /\ WF_vars(performUpdate /\ UNCHANGED myApp)

TypeOK ==
  /\ variant \in Variants
  /\ label \in Labels
  /\ value \in Values
  /\ labelEl \in 0..Len(nodes)
  /\ inputEl \in 0..Len(nodes)
  /\ DOMAIN changedProperties \subseteq {"label", "value"}
  /\ hasRequestedUpdate \in BOOLEAN
  /\ ops \in 0..MaxOps

\* --------------------------------------------------------------- todo-item
\* Values the page assigns to a todo-item's label and priority.
ItemLabels == {"", "foo"}
Priorities == {1, 5}

\* Bookkeeping of one page operation on the todo-item.
ItemStep(name, isWrite, isClick) ==
  [itemHist EXCEPT !.ops = @ + 1,
                   !.writes = @ + (IF isWrite THEN 1 ELSE 0),
                   !.clicks = @ + (IF isClick THEN 1 ELSE 0),
                   !.last = name]

\* A write of a declared property (label, priority, done): stored, and an
\* update requested if the value changed.
ItemWrite(field, v) ==
  /\ itemHist.ops < MaxOps
  /\ todoItem' = [todoItem EXCEPT ![field] = v,
                                  !.dirty = (@ \/ HasChanged(v, todoItem[field]))]
  /\ itemHist' = [ItemStep(field, TRUE, FALSE) EXCEPT
                     !.assigned = (field :> v) @@ itemHist.assigned]
  /\ UNCHANGED << inputVars, todoList, listHist >>

ItemSetLabel(l) == ItemWrite("label", l)
ItemSetPriority(n) == ItemWrite("priority", n)
ItemSetDone(d) == ItemWrite("done", d)

\* The element is put into a document (todo-item has no connectedCallback of
\* its own).
ItemAttach ==
  /\ itemHist.ops < MaxOps
  /\ ~todoItem.connected
  /\ todoItem' = [todoItem EXCEPT !.connected = TRUE]
  /\ itemHist' = ItemStep("attach", FALSE, FALSE)
  /\ UNCHANGED << inputVars, todoList, listHist >>

\* render(): a div with the label, a div with the priority, a div with the
\* button "done".  The button is given no listener.
ItemRendered(it) == << it.label, it.priority, "done" >>

\* An update pass that rebuilds the row from the constructor's defaults.
ItemUpdateFromDefaults ==
  /\ todoItem.dirty
  /\ todoItem.connected
  /\ todoItem' = [NewToDoItem EXCEPT !.shadow = ItemRendered(NewToDoItem),
                                     !.connected = TRUE,
                                     !.dirty = FALSE]
  /\ itemHist' = [itemHist EXCEPT !.renders = @ + 1, !.last = "update"]
  /\ UNCHANGED << inputVars, todoList, listHist >>

\* The update pass of the todo-item.
ItemUpdate ==
  /\ todoItem.dirty
  /\ todoItem.connected
  /\ todoItem' = [todoItem EXCEPT !.shadow = ItemRendered(todoItem),
                                  !.dirty = FALSE]
  /\ itemHist' = [itemHist EXCEPT !.renders = @ + 1, !.last = "update"]
  /\ UNCHANGED << inputVars, todoList, listHist >>

\* A click on the rendered button, given the item the click leaves behind.
ClickLeaving(after) ==
  /\ itemHist.ops < MaxOps
  /\ todoItem.shadow # << >>
  /\ todoItem' = after
  /\ itemHist' = ItemStep("click", FALSE, TRUE)
  /\ UNCHANGED << inputVars, todoList, listHist >>

\* Handlers the button could have been given by mistake: one that flips
\* done, one that marks done and rebuilds the row from the defaults.
ClickDoneToggles ==
  ClickLeaving([todoItem EXCEPT !.done = ~@, !.dirty = TRUE])
ClickDoneResets ==
  ClickLeaving([todoItem EXCEPT !.done = TRUE, !.label = "", !.priority = 1,
                                !.dirty = TRUE])

\* Activating the "done" button: <button>done</button> carries no listener
\* and the element registers none, so the click changes nothing.
ClickDone == ClickLeaving(todoItem)

ItemNext ==
  \/ \E l \in ItemLabels : ItemSetLabel(l)
  \/ \E n \in Priorities : ItemSetPriority(n)
  \/ \E d \in BOOLEAN : ItemSetDone(d)
  \/ ItemAttach
  \/ ItemUpdate
  \/ ClickDone

\* The todo-item on its own; the other elements stay as constructed.
ItemInit == Init /\ variant = "final"

ItemSpec == ItemInit /\ [][ItemNext]_vars

\* --------------------------------------------------------------- todo-list
\* Record lists the page assigns to dataItems.
DataChoices ==
  { << >>,
    ConstructorDataItems,
    << [label |-> "Item 2", priority |-> 2, done |-> TRUE] >>,
    << [label |-> "Item 1", priority |-> 5, done |-> TRUE],
       [label |-> "Item 2", priority |-> 2, done |-> TRUE] >> }

\* JavaScript numbers as far as the statistics need them: a quotient kept as
\* numerator and denominator, NaN for 0 / 0, Infinity for n / 0.
Num(n) == [kind |-> "number", num |-> n, den |-> 1]

\* A division that yields 0 for an empty list.
DivideOrZero(a, b) ==
  IF b # 0 THEN [kind |-> "number", num |-> a, den |-> b] ELSE Num(0)

\* a / b
Divide(a, b) ==
  IF b # 0 THEN [kind |-> "number", num |-> a, den |-> b]
  ELSE IF a = 0 THEN [kind |-> "NaN", num |-> 0, den |-> 0]
  ELSE [kind |-> "Infinity", num |-> a, den |-> 0]

\* Bookkeeping of one page operation on the todo-list.
ListStep(name) == [listHist EXCEPT !.ops = @ + 1, !.last = name]

\* dataItems as if it were declared in `static get properties()`.
ListSetDataItemsReactive(d) ==
  /\ listHist.ops < MaxOps
  /\ todoList' = [todoList EXCEPT !.dataItems = d,
                                  !.dirty = (@ \/ d # todoList.dataItems)]
  /\ listHist' = [ListStep("setDataItems") EXCEPT
                     !.stale = (@ \/ d # todoList.dataItems)]
  /\ UNCHANGED << inputVars, todoItem, itemHist >>

\* el.dataItems = d: dataItems is a plain field, not a declared property; no
\* update is requested.
ListSetDataItems(d) ==
  /\ listHist.ops < MaxOps
  /\ todoList' = [todoList EXCEPT !.dataItems = d]
  /\ listHist' = [ListStep("setDataItems") EXCEPT
                     !.stale = (@ \/ d # todoList.dataItems)]
  /\ UNCHANGED << inputVars, todoItem, itemHist >>

\* el.items = [...]: the one declared property; a new array is a change and
\* requests an update.
ListSetItems ==
  /\ listHist.ops < MaxOps
  /\ todoList' = [todoList EXCEPT !.dirty = TRUE]
  /\ listHist' = ListStep("setItems")
  /\ UNCHANGED << inputVars, todoItem, itemHist >>

\* The list is put into a document.
ListAttach ==
  /\ listHist.ops < MaxOps
  /\ ~todoList.connected
  /\ todoList' = [todoList EXCEPT !.connected = TRUE]
  /\ listHist' = ListStep("attach")
  /\ UNCHANGED << inputVars, todoItem, itemHist >>

\* One <todo-item .label .priority .done> of the template applied to an
\* existing todo-item: a binding writes its property only if the value differs
\* from the one the binding wrote last.
CommitBindings(view, part, rec) ==
  [f \in {"label", "priority", "done"} |->
     IF rec[f] # part[f] THEN rec[f] ELSE view[f]]

\* A render that keeps the todo-items of records that are gone.
RenderViewsKeepingSurplus(data, views, parts) ==
  [i \in 1..(IF Len(data) > Len(views) THEN Len(data) ELSE Len(views)) |->
     IF i > Len(data) THEN views[i]
     ELSE IF i <= Len(views) THEN CommitBindings(views[i], parts[i], data[i])
     ELSE data[i]]

\* render(): dataItems.map(item => <todo-item ...>), reconciled with the
\* todo-items already in the shadow root: one per record, in record order;
\* a todo-item created by this pass gets all three properties of its record.
RenderViews(data, views, parts) ==
  [i \in 1..Len(data) |->
     IF i <= Len(views) THEN CommitBindings(views[i], parts[i], data[i])
     ELSE data[i]]

\* The update pass of the list.
ListUpdate ==
  /\ todoList.dirty
  /\ todoList.connected
  /\ todoList' = [todoList EXCEPT
        !.views = RenderViews(todoList.dataItems, todoList.views, todoList.parts),
        !.parts = todoList.dataItems,
        !.dirty = FALSE]
  /\ listHist' = [listHist EXCEPT
        !.renders = @ + 1,
        !.touched = @ \cap (1..Len(todoList.dataItems)),
        !.stale = FALSE,
        !.last = "render"]
  /\ UNCHANGED << inputVars, todoItem, itemHist >>

\* The page writes done / priority of the i-th rendered todo-item.
ViewWrite(i, field, v) ==
  /\ listHist.ops < MaxOps
  /\ i \in 1..Len(todoList.views)
  /\ todoList' = [todoList EXCEPT !.views[i][field] = v]
  /\ listHist' = [ListStep("viewWrite") EXCEPT !.touched = @ \cup {i}]
  /\ UNCHANGED << inputVars, todoItem, itemHist >>

ViewSetDone(i, d) == ViewWrite(i, "done", d)
ViewSetPriority(i, n) == ViewWrite(i, "priority", n)

\* Reading the records instead of the rendered elements.
QueryRecords(list) == list.dataItems

\* Array.from(this.shadowRoot.querySelectorAll('todo-item'))
QueryToDoItems(list) == list.views

\* Counting the rows that are not done.
DoneIncrementInverted(item) == IF item.done THEN 0 ELSE 1

\* item.done ? 1 : 0
DoneIncrement(item) == IF item.done THEN 1 ELSE 0

\* items.forEach(item => { doneCounter += ...; prioritySum += item.priority })
RECURSIVE StatsLoop(_, _, _)
StatsLoop(items, doneCounter, prioritySum) ==
  IF items = << >>
    THEN [doneCounter |-> doneCounter, prioritySum |-> prioritySum]
    ELSE StatsLoop(Tail(items),
                   doneCounter + DoneIncrement(Head(items)),
                   prioritySum + Head(items).priority)

\* Only the first of the two console.log calls.
StatsLoggedDoneOnly(items) ==
  LET t == StatsLoop(items, 0, 0) IN
  << [text |-> "Done tasks", arg |-> Num(t.doneCounter)] >>

\* The two console.log calls that end calculateStats.
StatsLogged(items) ==
  LET t == StatsLoop(items, 0, 0) IN
  << [text |-> "Done tasks", arg |-> Num(t.doneCounter)],
     [text |-> "Average priority", arg |-> Divide(t.prioritySum, Len(items))] >>

\* calculateStats(): logs the two statistics; the function has no return
\* statement.
calculateStats ==
  /\ listHist.ops < MaxOps
  /\ todoList' = [todoList EXCEPT
        !.console = @ \o StatsLogged(QueryToDoItems(todoList)),
        !.returned = "undefined"]
  /\ listHist' = ListStep("calculateStats")
  /\ UNCHANGED << inputVars, todoItem, itemHist >>

ListNext ==
  \/ \E d \in DataChoices : ListSetDataItems(d)
  \/ ListSetItems
  \/ ListAttach
  \/ ListUpdate
  \/ \E i \in 1..3, d \in BOOLEAN : ViewSetDone(i, d)
  \/ \E i \in 1..3, n \in Priorities : ViewSetPriority(i, n)
  \/ calculateStats

\* The todo-list on its own; the other elements stay as constructed.
ListInit == Init /\ variant = "final"

ListSpec == ListInit /\ [][ListNext]_vars

\* ------------------------------------------------------------------ my-app
\* Names the page assigns on the my-app element object.
AppFieldNames == {"label", "value"}

\* No property binding on a template element.
NoBindings == [n \in {} |-> ""]

\* A render() whose a11y-input is given the app's label.
MyAppRenderForwardingLabel(app) ==
  << [tag |-> "h1", text |-> "My Filter App", bindings |-> NoBindings],
     [tag |-> "a11y-input", text |-> "",
      bindings |-> [n \in DOMAIN app.fields \cap {"label"} |-> app.fields[n]]] >>

\* render(): <h1>My Filter App</h1> <a11y-input></a11y-input>, the
\* a11y-input without attribute or property binding.
MyAppRender(app) ==
  << [tag |-> "h1", text |-> "My Filter App", bindings |-> NoBindings],
     [tag |-> "a11y-input", text |-> "", bindings |-> NoBindings] >>

\* el.<name> = v on the my-app element: an ordinary field of the object; no
\* accessor exists, no update is requested.
AppWrite(name, v) ==
  /\ ops < MaxOps
  /\ myApp' = [myApp EXCEPT !.fields = (name :> v) @@ @]
  /\ lastOp' = [op |-> "appWrite", arg |-> name, old |-> ""]
  /\ ops' = ops + 1
  /\ UNCHANGED << variant, label, value, labelEl, inputEl, nodes, children,
                  shadow, changedProperties, hasRequestedUpdate, hasConnected,
                  isConnected, logged, threw, passEvents, batch, hist,
                  firstEls >>
  /\ UNCHANGED todoVars

\* The app is put into a document; an a11y-input already in its shadow root
\* is connected with it.
AppAttach ==
  /\ ~myApp.connected
  /\ myApp' = [myApp EXCEPT !.connected = TRUE, !.hasConnected = TRUE]
  /\ IF myApp.shadow # << >>
       THEN connectedCallback
       ELSE /\ ops < MaxOps
            /\ lastOp' = [op |-> "appAttach", arg |-> "", old |-> ""]
            /\ ops' = ops + 1
            /\ UNCHANGED << variant, label, value, labelEl, inputEl, nodes,
                            children, shadow, changedProperties,
                            hasRequestedUpdate, hasConnected, isConnected,
                            logged, threw, passEvents, batch, hist, firstEls >>
            /\ UNCHANGED todoVars

\* The app is taken out of the document, and the a11y-input of its shadow
\* root with it.
AppDetach ==
  /\ myApp.connected
  /\ myApp' = [myApp EXCEPT !.connected = FALSE]
  /\ IF myApp.shadow # << >>
       THEN disconnectedCallback
       ELSE /\ ops < MaxOps
            /\ lastOp' = [op |-> "appDetach", arg |-> "", old |-> ""]
            /\ ops' = ops + 1
            /\ UNCHANGED << variant, label, value, labelEl, inputEl, nodes,
                            children, shadow, changedProperties,
                            hasRequestedUpdate, hasConnected, isConnected,
                            logged, threw, passEvents, batch, hist, firstEls >>
            /\ UNCHANGED todoVars

\* The property bindings b of the template's a11y-input committed to the
\* element: each bound property is written through its accessor.
CommitChildBindings(b) ==
  LET l == IF "label" \in DOMAIN b THEN b["label"] ELSE label
      v == IF "value" \in DOMAIN b THEN b["value"] ELSE value
      cp == IF "label" \in DOMAIN b
              THEN RecordChange(changedProperties, "label", label, l)
              ELSE changedProperties
      lg == IF "label" \in DOMAIN b
              THEN LoggedAfterRequest(variant, logged, "label", label, value)
              ELSE logged
  IN [label |-> l,
      value |-> v,
      changed |-> IF "value" \in DOMAIN b
                    THEN RecordChange(cp, "value", value, v) ELSE cp,
      requested |-> (hasRequestedUpdate \/ HasChanged(l, label)
                                        \/ HasChanged(v, value)),
      logged |-> IF "value" \in DOMAIN b
                   THEN LoggedAfterRequest(variant, lg, "value", value, v)
                   ELSE lg]

\* The update pass of the app: the template is stamped into the shadow root
\* on the first pass, its bindings are committed, and if the app is in the
\* document the a11y-input is connected (its connectedCallback runs).
AppUpdate ==
  LET tpl == MyAppRender(myApp)
      c == CommitChildBindings(tpl[2].bindings)
      connects == myApp.shadow = << >> /\ myApp.connected
      labelId == Len(nodes) + 1
      inputId == Len(nodes) + 2
  IN
  /\ myApp.dirty
  /\ myApp.hasConnected
  /\ myApp' = [myApp EXCEPT !.shadow = tpl, !.dirty = FALSE]
  /\ label' = c.label
  /\ value' = c.value
  /\ changedProperties' = c.changed
  /\ hasRequestedUpdate' = c.requested
  /\ logged' = c.logged
  /\ IF connects
       THEN /\ isConnected' = TRUE
            /\ hasConnected' = TRUE
            /\ nodes' = nodes \o << NewLabel(c.label), NewInput >>
            /\ labelEl' = labelId
            /\ inputEl' = inputId
            /\ children' = children \o << labelId, inputId >>
            /\ firstEls' = IF hasConnected THEN firstEls
                           ELSE [label |-> labelId, input |-> inputId]
       ELSE UNCHANGED << isConnected, hasConnected, nodes, labelEl, inputEl,
                         children, firstEls >>
  /\ lastOp' = [op |-> "appUpdate", arg |-> "", old |-> ""]
  /\ UNCHANGED << variant, shadow, threw, passEvents, batch, hist, ops >>
  /\ UNCHANGED todoVars

\* The update pass of the a11y-input inside the app.
AppInputUpdate == performUpdate /\ UNCHANGED myApp

AppNext ==
  \/ \E n \in AppFieldNames, v \in Labels : AppWrite(n, v)
  \/ AppAttach
  \/ AppDetach
  \/ AppUpdate
  \/ AppInputUpdate

\* The app with the a11y-input of its template; the page operates on the
\* app only.
AppSpec == Init /\ [][AppNext]_vars

\* ------------------------------------------------------------------ claims
\* The input node's displayed value, as the page reads it through inputEl.
InputDisplayed == IF inputEl = 0 THEN Undefined ELSE nodes[inputEl].value

\* C1: in the final revision, as long as no value write repeated the value
\* the element already held, log() has been called exactly once per write of
\* 'cat', each time with the message 'We like cats too :)'.
C1_LogPerCatWrite ==
  (variant = "final" /\ ~hist.repeated) =>
     /\ Len(logged) = hist.cats
     /\ \A i \in 1..Len(logged) : logged[i] = CatMessage

\* 'cat', s, 'cat' with s # 'cat': two calls.
C1_Witness ==
  /\ variant = "final"
  /\ ~hist.repeated
  /\ hist.cats = 2
  /\ Len(logged) = 2
  /\ lastOp = [op |-> "setValue", arg |-> "cat", old |-> "foo"]

\* C2: writing 'cat' to an element whose value is already 'cat' calls log()
\* no further time.
C2_NoRefireWhenAlreadyCat ==
  [][(variant = "final" /\ value = "cat"
        /\ lastOp'.op = "setValue" /\ lastOp'.arg = "cat")
       => logged' = logged]_vars

\* C3: a write of a value other than 'cat', and any write of label, leaves
\* the calls of log() as they were.
C3_OtherWritesSilent ==
  [][(\/ lastOp'.op = "setValue" /\ lastOp'.arg # "cat"
      \/ lastOp'.op = "setLabel")
       => logged' = logged]_vars

\* Leaving the sentinel: 'cat' -> 'foo' after one notification.
C3_Witness ==
  /\ variant = "final"
  /\ lastOp = [op |-> "setValue", arg |-> "foo", old |-> "cat"]
  /\ Len(logged) = 1

\* C4: once attached, the element owns exactly one label child and one input
\* child, and labelEl / inputEl are the nodes made by the first attachment.
C4_NodesCreatedOnce ==
  hasConnected =>
     /\ Cardinality(ChildrenWithTag("label")) = 1
     /\ Cardinality(ChildrenWithTag("input")) = 1
     /\ labelEl = firstEls.label
     /\ inputEl = firstEls.input

\* C5: a change of value, the constructor's initial one included, that is
\* pending on an element that has been attached leads to a state in which the
\* update pass has consumed it and the input node displays `value`.
ValueChangePending ==
  \/ "value" \in DOMAIN changedProperties
  \/ lastOp.op = "setValue" /\ lastOp.arg # lastOp.old

C5_ValueChangeSynced ==
  (hasConnected /\ ValueChangePending) ~>
     (lastOp.op = "update" /\ lastOp.arg = "value" /\ InputDisplayed = value)

\* A value set before first attachment has reached the input node.
C5_Witness ==
  /\ lastOp.op = "update"
  /\ lastOp.arg = "value"
  /\ hist.early = 1
  /\ value = "foo"
  /\ InputDisplayed = "foo"
  /\ ops = 2

\* C6: once attached and with no update pending, the label node's text is the
\* current label.
C6_LabelNodeFollowsLabel ==
  (hasConnected /\ ~hasRequestedUpdate) => nodes[labelEl].text = label

C8_NoNullDereference ==
  /\ ~threw
  /\ ~hasConnected => (passEvents = << >> /\ lastOp.op # "update")
  /\ lastOp.op = "update" => (inputEl # 0 /\ labelEl # 0)

\* Value and label were both assigned before attachment and the deferred
\* pass has written the value.
C8_Witness ==
  /\ lastOp.op = "update"
  /\ lastOp.arg = "value"
  /\ hist.early = 2
  /\ ops = 3
  /\ value = "cat"
  /\ label = "foo"
  /\ InputDisplayed = "cat"
  /\ ~threw

C10_WriteAfterRender ==
  \A i \in 1..Len(passEvents) :
     passEvents[i] = "write" => \E j \in 1..(i - 1) : passEvents[j] = "render"

\* A pass of the update-hook revision that rendered, logged and wrote.
C10_Witness ==
  /\ variant = "updateHook"
  /\ passEvents = << "render", "log", "write" >>
  /\ InputDisplayed = "cat"

\* What the page reads from the todo-item.
ItemFields(it) == << it.label, it.priority, it.done >>

\* C11: once the "done" button has been activated, done is true.
C11_ClickMarksDone ==
  (itemHist.clicks >= 1 /\ itemHist.last = "click") => todoItem.done = TRUE

\* C12: an activation of the "done" button leaves label and priority as they
\* were.
C12_ClickKeepsLabelAndPriority ==
  [][itemHist'.clicks > itemHist.clicks =>
       /\ todoItem'.label = todoItem.label
       /\ todoItem'.priority = todoItem.priority]_vars

\* Two activations of a row with label 'foo' and priority 5.
C12_Witness ==
  /\ itemHist.clicks = 2
  /\ itemHist.last = "click"
  /\ todoItem.label = "foo"
  /\ todoItem.priority = 5

\* C13: an activation that directly follows an activation leaves label,
\* priority and done as the first one left them.
C13_ClickIdempotent ==
  [][(itemHist.last = "click" /\ itemHist'.clicks > itemHist.clicks) =>
       ItemFields(todoItem') = ItemFields(todoItem)]_vars

\* Two activations in a row on a row that was marked done by the page.
C13_Witness ==
  /\ itemHist.clicks = 2
  /\ itemHist.last = "click"
  /\ itemHist.ops = 4
  /\ itemHist.writes = 1
  /\ todoItem.done = TRUE

\* C19: a todo-item to which nothing was assigned has done = false,
\* label = '' and priority = 1, before and after its first render.
C19_ItemDefaults ==
  itemHist.writes = 0 =>
     /\ todoItem.done = FALSE
     /\ todoItem.label = ""
     /\ todoItem.priority = 1
     /\ itemHist.renders >= 1 => todoItem.shadow = << "", 1, "done" >>

\* Rendered once, nothing assigned.
C19_Witness ==
  /\ itemHist.writes = 0
  /\ itemHist.renders = 1
  /\ todoItem.shadow # << >>
  /\ ~todoItem.dirty

\* What the last calculateStats call wrote to the console.
LoggedDone == todoList.console[Len(todoList.console) - 1].arg
LoggedAverage == todoList.console[Len(todoList.console)].arg

\* Done count and priority sum of a list of rows, by index.
DoneCountOf(rows) == Cardinality({ i \in 1..Len(rows) : rows[i].done })

RECURSIVE PrioritySumUpTo(_, _)
PrioritySumUpTo(rows, n) ==
  IF n = 0 THEN 0 ELSE PrioritySumUpTo(rows, n - 1) + rows[n].priority

PrioritySumOf(rows) == PrioritySumUpTo(rows, Len(rows))

\* C14: calculateStats run after the list rendered reports the number of
\* rendered todo-items that are done and the sum of their priorities divided
\* by their number; for the constructor's records, 1 and 14/3.
C14_StatsOfRenderedItems ==
  (listHist.last = "calculateStats" /\ listHist.renders >= 1) =>
     /\ LoggedDone = Num(DoneCountOf(todoList.views))
     /\ Len(todoList.views) > 0 =>
          LoggedAverage = [kind |-> "number",
                           num |-> PrioritySumOf(todoList.views),
                           den |-> Len(todoList.views)]
     /\ todoList.views = ConstructorDataItems =>
          (LoggedDone = Num(1) /\
           LoggedAverage = [kind |-> "number", num |-> 14, den |-> 3])

\* The three constructor records, rendered and untouched: 1 and 14/3.
C14_Witness ==
  /\ listHist.last = "calculateStats"
  /\ listHist.renders = 1
  /\ listHist.touched = {}
  /\ todoList.views = ConstructorDataItems
  /\ LoggedDone.num = 1
  /\ LoggedAverage.num = 14
  /\ LoggedAverage.den = 3

C16_EmptyListAverageIsNaN ==
  (listHist.last = "calculateStats" /\ todoList.views = << >>) =>
     /\ LoggedDone = Num(0)
     /\ LoggedAverage.kind = "NaN"

\* The list rendered an empty dataItems and was asked for its statistics.
C16_Witness ==
  /\ listHist.last = "calculateStats"
  /\ listHist.renders >= 1
  /\ todoList.dataItems = << >>
  /\ todoList.views = << >>
  /\ LoggedAverage.kind = "NaN"

\* C17: after the page wrote done / priority of rendered todo-items and left
\* dataItems alone, the call reports the values the todo-items hold now.
C17_StatsReadViews ==
  (listHist.last = "calculateStats" /\ listHist.touched # {} /\ ~listHist.stale)
    => /\ LoggedDone.num = DoneCountOf(todoList.views)
       /\ LoggedAverage.num = PrioritySumOf(todoList.views)

\* The reported statistics differ from those of the unchanged records.
C17_Witness ==
  /\ listHist.last = "calculateStats"
  /\ listHist.touched # {}
  /\ ~listHist.stale
  /\ todoList.dataItems = ConstructorDataItems
  /\ LoggedDone.num = 2
  /\ DoneCountOf(todoList.dataItems) = 1
  /\ LoggedAverage.num # PrioritySumOf(todoList.dataItems)

\* C18: after a render pass the list holds one todo-item per record, in
\* record order: the i-th carries the bindings of the i-th record, and holds
\* the record's label, priority and done unless the page wrote to it.
C18_OneItemPerRecord ==
  listHist.last = "render" =>
     /\ Len(todoList.views) = Len(todoList.dataItems)
     /\ \A i \in 1..Len(todoList.views) :
          /\ todoList.parts[i] = todoList.dataItems[i]
          /\ i \notin listHist.touched =>
               /\ todoList.views[i].label = todoList.dataItems[i].label
               /\ todoList.views[i].priority = todoList.dataItems[i].priority
               /\ todoList.views[i].done = todoList.dataItems[i].done

\* A second render after dataItems shrank from three records to two.
C18_Witness ==
  /\ listHist.last = "render"
  /\ listHist.renders = 2
  /\ Len(todoList.dataItems) = 2
  /\ Len(todoList.views) = 2
  /\ todoList.views[1].done = TRUE

\* C20: an a11y-input to which nothing was assigned has label = '' and
\* value = '', and once attached it owns exactly one label child and one
\* input child.
C20_InputDefaults ==
  (ops = 0 \/ (ops = 1 /\ hasConnected)) =>
     /\ label = ""
     /\ value = ""
     /\ hasConnected =>
          /\ Len(children) = 2
          /\ Cardinality(ChildrenWithTag("label")) = 1
          /\ Cardinality(ChildrenWithTag("input")) = 1

\* Attached and updated, nothing assigned.
C20_Witness ==
  /\ ops = 1
  /\ hasConnected
  /\ lastOp.op = "update"
  /\ label = ""
  /\ value = ""
  /\ Cardinality(ChildrenWithTag("input")) = 1

C23_LogSynchronousWithWrite ==
  [][(variant = "final" /\ lastOp'.op = "setValue" /\ lastOp'.arg = "cat") =>
       /\ logged' = Append(logged, CatMessage)
       /\ passEvents' = passEvents
       /\ nodes' = nodes
       /\ lastOp'.old # "cat" =>
            (hasRequestedUpdate' /\ "value" \in DOMAIN changedProperties')]_vars

\* 'cat' written to an attached, updated element: logged, not yet displayed.
C23_Witness ==
  /\ variant = "final"
  /\ lastOp = [op |-> "setValue", arg |-> "cat", old |-> ""]
  /\ hasConnected
  /\ passEvents = << "render", "write" >>
  /\ hasRequestedUpdate
  /\ logged = << CatMessage >>
  /\ InputDisplayed = ""

\* C24: as long as 'cat' was never assigned to value, log() has not been
\* called: not by the constructor's own write of value, not by attaching,
\* not by the first update pass.
C24_StartsInNotCat ==
  hist.cats = 0 => logged = << >>

\* Constructed, attached, first pass done (it wrote the constructor's value).
C24_Witness ==
  /\ variant = "final"
  /\ ops = 1
  /\ hist.cats = 0
  /\ lastOp = [op |-> "update", arg |-> "value", old |-> ""]
  /\ passEvents = << "render", "write" >>
  /\ logged = << >>

\* C25: in the update-hook revision no page operation calls console.log, and
\* an update pass calls it once if value is in the changed set and is 'cat'
\* at that moment, and not at all otherwise.
C25_LogDeferredAndCoalesced ==
  [][variant = "updateHook" =>
       /\ lastOp'.op # "update" => logged' = logged
       /\ lastOp'.op = "update" =>
            logged' = IF "value" \in DOMAIN changedProperties /\ value = "cat"
                        THEN Append(logged, CatMessage)
                        ELSE logged]_vars

\* A batch 'cat', 'foo', 'cat' closed by one pass: one notification.
C25_Witness ==
  /\ variant = "updateHook"
  /\ batch.closed
  /\ batch.cats = 2
  /\ batch.logs = 1
  /\ logged = << CatMessage >>
  /\ lastOp.op = "update"

\* C26: whenever the element is attached and no update is pending, the input
\* node that inputEl refers to displays `value`.
C26_DisplayedFollowsValue ==
  (isConnected /\ ~hasRequestedUpdate) => InputDisplayed = value

\* C27: labelEl and inputEl are null before the first attachment and nodes
\* in every state after it, detached states included.
C27_ElsSetByFirstAttach ==
  /\ ~hasConnected => (labelEl = 0 /\ inputEl = 0)
  /\ hasConnected => (labelEl # 0 /\ inputEl # 0)

\* Attached, then detached.
C27_Witness ==
  /\ hasConnected
  /\ ~isConnected
  /\ lastOp.op = "disconnected"
  /\ labelEl # 0
  /\ inputEl # 0

\* C28: an update pass whose changed set does not contain value leaves every
\* node, the input node's displayed value included, as it was.
C28_PassWithoutValueKeepsInput ==
  [][(lastOp'.op = "update" /\ "value" \notin DOMAIN changedProperties) =>
       /\ nodes' = nodes
       /\ "write" \notin { passEvents'[i] : i \in 1..Len(passEvents') }]_vars

\* A pass caused by a label change only, on an input node that does not
\* display the value.
C28_Witness ==
  /\ variant = "final"
  /\ lastOp = [op |-> "update", arg |-> "", old |-> ""]
  /\ label = "foo"
  /\ passEvents = << "render" >>
  /\ value = "foo"
  /\ InputDisplayed = ""

\* C29: calculateStats called before the list's first render pass reports
\* done count 0 and an average that is NaN, whatever dataItems holds.
C29_StatsBeforeFirstRender ==
  (listHist.last = "calculateStats" /\ listHist.renders = 0) =>
     /\ todoList.views = << >>
     /\ LoggedDone = Num(0)
     /\ LoggedAverage = [kind |-> "NaN", num |-> 0, den |-> 0]

\* The first operation on the constructed list, three records present.
C29_Witness ==
  /\ listHist.last = "calculateStats"
  /\ listHist.renders = 0
  /\ listHist.ops = 1
  /\ Len(todoList.dataItems) = 3
  /\ Len(todoList.console) = 2
  /\ LoggedAverage.kind = "NaN"

\* C30: an assignment to dataItems requests no update and leaves the
\* rendered todo-items alone; calculateStats called while the records are
\* stale reports the records of the last render.
C30_DataItemsNotReactive ==
  /\ [][(listHist'.ops > listHist.ops /\ listHist'.last = "setDataItems") =>
          /\ todoList'.dirty = todoList.dirty
          /\ todoList'.views = todoList.views
          /\ todoList'.parts = todoList.parts]_vars
  /\ []((listHist.last = "calculateStats" /\ listHist.stale
           /\ listHist.touched = {} /\ listHist.renders >= 1) =>
          /\ LoggedDone = Num(DoneCountOf(todoList.parts))
          /\ LoggedAverage.num = PrioritySumOf(todoList.parts)
          /\ LoggedAverage.den = Len(todoList.parts))

\* Rendered with the constructor's records, dataItems then emptied: the
\* statistics are still 1 and 14/3.
C30_Witness ==
  /\ listHist.last = "calculateStats"
  /\ listHist.stale
  /\ ~todoList.dirty
  /\ todoList.dataItems = << >>
  /\ Len(todoList.views) = 3
  /\ LoggedDone = Num(1)
  /\ LoggedAverage = [kind |-> "number", num |-> 14, den |-> 3]

\* C21: no assignment to the app changes what it renders or requests an
\* update; once rendered, its shadow root holds the heading 'My Filter App'
\* followed by one a11y-input without bindings; that a11y-input has
\* label = '' and value = ''.
C21_AppRendersPlainInput ==
  /\ label = ""
  /\ value = ""
  /\ myApp.shadow # << >> =>
       /\ ~myApp.dirty
       /\ Len(myApp.shadow) = 2
       /\ myApp.shadow[1].tag = "h1"
       /\ myApp.shadow[1].text = "My Filter App"
       /\ myApp.shadow[2].tag = "a11y-input"
       /\ DOMAIN myApp.shadow[2].bindings = {}

\* <my-app .label=${'foo'}>: attached, rendered, the a11y-input updated.
C21_Witness ==
  /\ "label" \in DOMAIN myApp.fields
  /\ myApp.fields["label"] = "foo"
  /\ myApp.connected
  /\ myApp.shadow # << >>
  /\ lastOp.op = "update"
  /\ Len(children) = 2
  /\ nodes[labelEl].text = ""
  /\ InputDisplayed = ""

====
